---- MODULE Spec2Model ----
(***************************************************************************)
(* Model of the two persistence managers of the repository:                *)
(*   - ProductManager (Entregable_03/src/ProductManager.js): a product     *)
(*     list kept in one JSON file that every mutation rewrites wholesale;  *)
(*   - CartManagerMongo (unnamed/part_000): carts kept in a document store *)
(*     and mutated by read-modify-write of the whole line-item array.      *)
(*                                                                         *)
(* JavaScript values are encoded as strings: "n:5" is the number 5,        *)
(* "s:abc" the string "abc", "s:" the empty string and Undefined the value *)
(* undefined.  Product ids are naturals.  An object is a function from the *)
(* set of its keys; a key that is absent reads as undefined.               *)
(***************************************************************************)
EXTENDS Naturals, Sequences, FiniteSets, TLC

VARIABLES
    file,        \* parsed content of products.json (a sequence of products)
    call,        \* the last completed sequential call and what it observed
    pc,          \* per caller: position inside an interleaved call
    local,       \* per caller: local variables of the interleaved call
    version,     \* number of writeFile calls completed so far
    lastWriter,  \* the caller whose writeFile completed last
    carts,       \* cart collection: cart id -> sequence of line items
    cartCall     \* the last completed cart call and what it observed

vars == <<file, call, pc, local, version, lastWriter, carts, cartCall>>

----------------------------------------------------------------------------
(* Bounds *)

MaxProducts == 3
MaxId == 4
MaxCalls == 2
MaxItems == 3

----------------------------------------------------------------------------
(* JavaScript values and objects *)

Undefined == "undefined"

Fields == {"title", "description", "price", "thumbnail", "code", "stock"}

\* obj.k : an absent key reads as undefined
Get(obj, k) == IF k \in DOMAIN obj THEN obj[k] ELSE Undefined

\* !v is false: undefined, 0 and "" are the falsy values of the domain
Truthy(v) == v \notin {Undefined, "n:0", "s:"}

\* ids are naturals and never undefined; any other key may hold undefined
Defined(obj, k) == k = "id" \/ obj[k] # Undefined

\* JSON.stringify of one object: keys whose value is undefined are dropped
StringifyObject(obj) ==
    [k \in {j \in DOMAIN obj : Defined(obj, j)} |-> obj[k]]

\* JSON.stringify of the product array, as read back by JSON.parse
JSONStringify(productList) ==
    [i \in 1..Len(productList) |-> StringifyObject(productList[i])]

\* An id argument is a number or a numeric string
IdArgs == [t : {"num", "str"}, n : 1..MaxId]

\* product.id === productID : no coercion, a string never equals a number
StrictEq(id, productID) == productID.t = "num" /\ id = productID.n

\* product.id != productID : the string is coerced to a number first
LooseNeq(id, productID) == id # productID.n

----------------------------------------------------------------------------
(* Return values *)

RetUndefined == [kind |-> "undefined", val |-> <<>>]
RetProduct(p) == [kind |-> "product", val |-> p]
RetList(l) == [kind |-> "list", val |-> l]

----------------------------------------------------------------------------
(* ProductManager: the pure parts of each method *)

\* getProducts: JSON.parse of the file content
GetProducts(content) == content

\* The appendFile slip: the new data is added after the old content
WriteFileAppend(content, data) == content \o data

\* fs.promises.writeFile: the whole file is replaced
WriteFile(content, data) == data

\* Validation of line 99
AllFieldsTruthy(newProduct) == \A f \in Fields : Truthy(Get(newProduct, f))

\* The check looks at the first stored product only
CodeExistsFirstOnly(productList, code) ==
    Len(productList) > 0 /\ Get(productList[1], "code") = code

\* productList.some((product) => product.code === code)
CodeExists(productList, code) ==
    \E i \in 1..Len(productList) : Get(productList[i], "code") = code

\* The id is taken from the length of the list
GetNewIDByLength(productList) == Len(productList) + 1

\* #getNewID, applied to the list it has just read
GetNewID(productList) ==
    IF Len(productList) = 0 THEN 1
    ELSE productList[Len(productList)].id + 1

\* The object literal pushed by addProduct
NewRecord(id, newProduct) ==
    [k \in {"id"} \cup Fields |->
        IF k = "id" THEN id ELSE Get(newProduct, k)]

\* productList[id - 1] with JavaScript's 0-based index
ReturnAt(productList, id) ==
    IF id \in 1..Len(productList)
    THEN RetProduct(productList[id])
    ELSE RetUndefined

\* splice(findIndex(...), 1): an index of -1 removes the last element
FilterOutBySplice(productList, productID) ==
    IF \E i \in 1..Len(productList) : ~LooseNeq(productList[i].id, productID)
    THEN SelectSeq(productList, LAMBDA p : LooseNeq(p.id, productID))
    ELSE SubSeq(productList, 1, Len(productList) - 1)

\* productList.filter((product) => product.id != productID)
FilterOut(productList, productID) ==
    SelectSeq(productList, LAMBDA p : LooseNeq(p.id, productID))

\* { ...product, title, description, price, thumbnail, code, stock }
MergeProduct(product, productToChanged) ==
    [k \in DOMAIN product \cup Fields |->
        IF k \in Fields THEN Get(productToChanged, k) ELSE product[k]]

\* productList.map(...) of updateProduct
MapUpdate(productList, productID, productToChanged) ==
    [i \in 1..Len(productList) |->
        IF StrictEq(productList[i].id, productID)
        THEN MergeProduct(productList[i], productToChanged)
        ELSE productList[i]]

----------------------------------------------------------------------------
(* Inputs *)

Prod(code, price, stock) ==
    [title |-> "s:tv", description |-> "s:desc", price |-> price,
     thumbnail |-> "s:img", code |-> code, stock |-> stock]

NoTitle == [description |-> "s:desc", price |-> "n:10",
            thumbnail |-> "s:img", code |-> "s:c3", stock |-> "n:5"]

NewProducts ==
    { Prod("s:c1", "n:10", "n:5"), Prod("s:c2", "n:10", "n:5"),
      Prod("s:c3", "n:10", "n:5"),
      Prod("s:c3", "n:10", "n:0"),     \* out of stock
      Prod("s:c1", "n:10", "n:0"),     \* out of stock and duplicate code
      NoTitle }

Payloads ==
    { [price |-> "n:20"],
      [code |-> "s:c1", stock |-> "n:0"],
      Prod("s:c4", "n:30", "n:7") }

NoProduct == [k \in {} |-> Undefined]
NoId == [t |-> "num", n |-> 0]

----------------------------------------------------------------------------
(* Sequential calls: each action is one whole method call *)

NoCall == [op |-> "none", pre |-> <<>>, newProduct |-> NoProduct,
           productID |-> NoId, payload |-> NoProduct, id |-> 0,
           written |-> FALSE, ret |-> RetUndefined]

AddProduct(newProduct) ==
    /\ Len(file) < MaxProducts
    /\ GetNewID(GetProducts(file)) <= MaxId
    /\ LET productList == GetProducts(file)
           code == Get(newProduct, "code")
           rejected == [NoCall EXCEPT !.op = "add", !.pre = file,
                                      !.newProduct = newProduct]
       IN  IF ~AllFieldsTruthy(newProduct)
           THEN /\ call' = rejected
                /\ file' = file
           ELSE IF CodeExists(productList, code)
           THEN /\ call' = rejected
                /\ file' = file
           ELSE LET id == GetNewID(GetProducts(file))
                    pushed == Append(productList, NewRecord(id, newProduct))
                IN  /\ file' = WriteFile(file, JSONStringify(pushed))
                    /\ call' = [rejected EXCEPT !.id = id, !.written = TRUE,
                                                !.ret = ReturnAt(pushed, id)]
    /\ UNCHANGED <<pc, local, version, lastWriter, carts, cartCall>>

DeleteProduct(productID) ==
    /\ LET productList == GetProducts(file)
           newProductList == FilterOut(productList, productID)
       IN  /\ file' = WriteFile(file, JSONStringify(newProductList))
           /\ call' = [NoCall EXCEPT !.op = "delete", !.pre = file,
                                     !.productID = productID,
                                     !.written = TRUE,
                                     !.ret = RetList(newProductList)]
    /\ UNCHANGED <<pc, local, version, lastWriter, carts, cartCall>>

UpdateProduct(productID, productToChanged) ==
    /\ LET productList == GetProducts(file)
           updatedProductList ==
               MapUpdate(productList, productID, productToChanged)
       IN  /\ file' = WriteFile(file, JSONStringify(updatedProductList))
           /\ call' = [NoCall EXCEPT !.op = "update", !.pre = file,
                                     !.productID = productID,
                                     !.payload = productToChanged,
                                     !.written = TRUE,
                                     !.ret = RetList(updatedProductList)]
    /\ UNCHANGED <<pc, local, version, lastWriter, carts, cartCall>>

NoCartCall == [op |-> "none", cartId |-> "", productId |-> "",
               found |-> FALSE, pre |-> <<>>]

Callers == {"a", "b"}

Idle == [op |-> "none", newProduct |-> NoProduct, productID |-> NoId,
         productList |-> <<>>, snapshot |-> <<>>, id |-> 0,
         readAt |-> 0, writeAt |-> 0, written |-> FALSE, calls |-> 0]

Init ==
    /\ file = <<>>
    /\ call = NoCall
    /\ pc = [c \in Callers |-> "idle"]
    /\ local = [c \in Callers |-> Idle]
    /\ version = 0
    /\ lastWriter = "none"
    /\ carts = <<>>
    /\ cartCall = NoCartCall

Next ==
    \/ \E newProduct \in NewProducts : AddProduct(newProduct)
    \/ \E productID \in IdArgs : DeleteProduct(productID)
    \/ \E productID \in IdArgs, productToChanged \in Payloads :
           UpdateProduct(productID, productToChanged)

Spec == Init /\ [][Next]_vars

SpecAddDelete ==
    Init /\ [][\/ \E newProduct \in NewProducts : AddProduct(newProduct)
              \/ \E productID \in IdArgs : DeleteProduct(productID)]_vars

----------------------------------------------------------------------------
(* Interleaved calls: one action per stretch of code between two awaits.   *)
(* readFile and writeFile each take effect in one step.                    *)

\* Stored collections the interleaved callers may find in the file
StoredFiles ==
    { <<>>,
      <<NewRecord(1, Prod("s:c1", "n:10", "n:5"))>>,
      <<NewRecord(1, Prod("s:c1", "n:10", "n:5")),
        NewRecord(2, Prod("s:c2", "n:10", "n:5"))>> }

ConcProducts ==
    { Prod("s:c3", "n:10", "n:5"), Prod("s:c4", "n:10", "n:5"),
      Prod("s:c1", "n:10", "n:5"), NoTitle }

ConcIds == [t : {"num"}, n : 1..2]

\* addProduct up to its first await: validation, then getProducts is called
AddStart(c, newProduct) ==
    /\ pc[c] = "idle"
    /\ local[c].calls < MaxCalls
    /\ local' = [local EXCEPT ![c] =
                    [Idle EXCEPT !.op = "add", !.newProduct = newProduct,
                                 !.calls = local[c].calls + 1]]
    /\ pc' = [pc EXCEPT ![c] =
                 IF AllFieldsTruthy(newProduct) THEN "add_read1" ELSE "idle"]
    /\ UNCHANGED <<file, call, version, lastWriter, carts, cartCall>>

\* line 102 resolves: the list is read, the code is checked, #getNewID starts
AddRead1(c) ==
    /\ pc[c] = "add_read1"
    /\ LET productList == GetProducts(file)
       IN  /\ local' = [local EXCEPT ![c].productList = productList,
                                     ![c].snapshot = productList,
                                     ![c].readAt = version]
           /\ pc' = [pc EXCEPT ![c] =
                        IF CodeExists(productList,
                                      Get(local[c].newProduct, "code"))
                        THEN "idle" ELSE "add_read2"]
    /\ UNCHANGED <<file, call, version, lastWriter, carts, cartCall>>

\* line 109 resolves: #getNewID has read the file again; the record is
\* pushed onto the list read at line 102 and writeFile is called
AddRead2(c) ==
    /\ pc[c] = "add_read2"
    /\ LET id == GetNewID(GetProducts(file))
       IN  local' = [local EXCEPT
                        ![c].id = id,
                        ![c].productList =
                            Append(local[c].productList,
                                   NewRecord(id, local[c].newProduct))]
    /\ pc' = [pc EXCEPT ![c] = "add_write"]
    /\ UNCHANGED <<file, call, version, lastWriter, carts, cartCall>>

\* line 121 resolves: the file now holds this caller's list
AddWrite(c) ==
    /\ pc[c] = "add_write"
    /\ file' = WriteFile(file, JSONStringify(local[c].productList))
    /\ version' = version + 1
    /\ lastWriter' = c
    /\ local' = [local EXCEPT ![c].writeAt = version + 1,
                              ![c].written = TRUE]
    /\ pc' = [pc EXCEPT ![c] = "idle"]
    /\ UNCHANGED <<call, carts, cartCall>>

\* deleteProduct up to its first await
DelStart(c, productID) ==
    /\ pc[c] = "idle"
    /\ local[c].calls < MaxCalls
    /\ local' = [local EXCEPT ![c] =
                    [Idle EXCEPT !.op = "delete", !.productID = productID,
                                 !.calls = local[c].calls + 1]]
    /\ pc' = [pc EXCEPT ![c] = "del_read"]
    /\ UNCHANGED <<file, call, version, lastWriter, carts, cartCall>>

\* line 144 resolves: the list is read and filtered, writeFile is called
DelRead(c) ==
    /\ pc[c] = "del_read"
    /\ LET productList == GetProducts(file)
       IN  local' = [local EXCEPT
                        ![c].snapshot = productList,
                        ![c].readAt = version,
                        ![c].productList =
                            FilterOut(productList, local[c].productID)]
    /\ pc' = [pc EXCEPT ![c] = "del_write"]
    /\ UNCHANGED <<file, call, version, lastWriter, carts, cartCall>>

\* line 148 resolves
DelWrite(c) ==
    /\ pc[c] = "del_write"
    /\ file' = WriteFile(file, JSONStringify(local[c].productList))
    /\ version' = version + 1
    /\ lastWriter' = c
    /\ local' = [local EXCEPT ![c].writeAt = version + 1,
                              ![c].written = TRUE]
    /\ pc' = [pc EXCEPT ![c] = "idle"]
    /\ UNCHANGED <<call, carts, cartCall>>

InitConc ==
    /\ file \in StoredFiles
    /\ call = NoCall
    /\ pc = [c \in Callers |-> "idle"]
    /\ local = [c \in Callers |-> Idle]
    /\ version = 0
    /\ lastWriter = "none"
    /\ carts = <<>>
    /\ cartCall = NoCartCall

NextConc ==
    \E c \in Callers :
        \/ \E newProduct \in ConcProducts : AddStart(c, newProduct)
        \/ AddRead1(c)
        \/ AddRead2(c)
        \/ AddWrite(c)
        \/ \E productID \in ConcIds : DelStart(c, productID)
        \/ DelRead(c)
        \/ DelWrite(c)

SpecConc == InitConc /\ [][NextConc]_vars

----------------------------------------------------------------------------
(* CartManagerMongo.  A stored line item is [product |-> id, quantity |-> n] *)
(* where product is the ObjectId of a product document.                      *)

CartIds == {"k1", "k2"}
ProductDocs == {"p1", "p2"}
ProductArgs == {"p1", "p2", "p9"}
DefaultQuantity == 1

\* A string or ObjectId, a populated document, and null
IdValue(id) == [kind |-> "id", _id |-> id]
DocValue(id) == [kind |-> "object", _id |-> id]
NullValue == [kind |-> "null", _id |-> ""]

\* String(v): an id gives its text, a plain object "[object Object]"
JSString(v) ==
    IF v.kind = "object" THEN "[object Object]"
    ELSE IF v.kind = "null" THEN "null"
    ELSE v._id

\* productManager.getProductById: the product document, or nothing
GetProductById(productId) ==
    IF productId \in ProductDocs THEN DocValue(productId) ELSE NullValue

\* populate('products.product').lean(): each reference is replaced by the
\* plain product document it points to
Populate(products) ==
    [i \in 1..Len(products) |->
        [product |-> IF products[i].product \in ProductDocs
                     THEN DocValue(products[i].product) ELSE NullValue,
         quantity |-> products[i].quantity]]

\* getCartById
GetCartById(cartID) ==
    IF cartID \in DOMAIN carts
    THEN [found |-> TRUE, products |-> Populate(carts[cartID])]
    ELSE [found |-> FALSE, products |-> <<>>]

\* cart.products.find((item) => String(item.product) === String(productId))
\* as the index of the first item found, 0 when there is none
FindProductExist(products, productId) ==
    LET hits == {i \in 1..Len(products) :
                    JSString(products[i].product) = JSString(IdValue(productId))}
    IN  IF hits = {} THEN 0
        ELSE CHOOSE i \in hits : \A j \in hits : i <= j

\* findIndex((item) => String(item.product._id) === String(productId)),
\* 0 standing for -1
FindProductIndex(products, productId) ==
    LET hits == {i \in 1..Len(products) :
                    /\ products[i].product.kind = "object"
                    /\ JSString(IdValue(products[i].product._id))
                           = JSString(IdValue(productId))}
    IN  IF hits = {} THEN 0
        ELSE CHOOSE i \in hits : \A j \in hits : i <= j

\* The schema's cast of one line item on $set: a document is stored by its
\* _id and a missing quantity takes the default
CastItem(item) ==
    [product |-> item.product._id,
     quantity |-> IF "quantity" \in DOMAIN item
                  THEN item.quantity ELSE DefaultQuantity]

\* findOneAndUpdate({ _id: cartId }, { $set: { products } })
SetProducts(cartId, products) ==
    [carts EXCEPT ![cartId] = [i \in 1..Len(products) |-> CastItem(products[i])]]

AddCart(cartId) ==
    /\ cartId \notin DOMAIN carts
    /\ carts' = [k \in DOMAIN carts \cup {cartId} |->
                    IF k = cartId THEN <<>> ELSE carts[k]]
    /\ cartCall' = [NoCartCall EXCEPT !.op = "addCart", !.cartId = cartId]
    /\ UNCHANGED <<file, call, pc, local, version, lastWriter>>

AddProductToCart(cartId, productId) ==
    /\ LET cart == GetCartById(cartId)
           product == GetProductById(productId)
           productExist == FindProductExist(cart.products, productId)
           products ==
               IF productExist # 0
               THEN [cart.products EXCEPT ![productExist].quantity = @ + 1]
               ELSE Append(cart.products, [product |-> IdValue(product._id)])
       IN  /\ cart.found => Len(cart.products) < MaxItems
           /\ carts' = IF product.kind = "null" \/ ~cart.found
                       THEN carts
                       ELSE SetProducts(cartId, products)
           /\ cartCall' = [op |-> "addProductToCart", cartId |-> cartId,
                           productId |-> productId, found |-> cart.found,
                           pre |-> IF cart.found THEN carts[cartId] ELSE <<>>]
    /\ UNCHANGED <<file, call, pc, local, version, lastWriter>>

DeleteOneProductfromCart(cartId, productId) ==
    /\ LET cart == GetCartById(cartId)
           productIndex == FindProductIndex(cart.products, productId)
           products ==
               [i \in 1..(Len(cart.products) - 1) |->
                   IF i < productIndex THEN cart.products[i]
                   ELSE cart.products[i + 1]]
       IN  /\ carts' = IF productIndex = 0 \/ ~cart.found
                       THEN carts
                       ELSE SetProducts(cartId, products)
           /\ cartCall' = [op |-> "deleteOneProductfromCart",
                           cartId |-> cartId, productId |-> productId,
                           found |-> cart.found,
                           pre |-> IF cart.found THEN carts[cartId] ELSE <<>>]
    /\ UNCHANGED <<file, call, pc, local, version, lastWriter>>

DeleteAllProductsfromCart(cartId) ==
    /\ carts' = IF cartId \in DOMAIN carts
                THEN SetProducts(cartId, <<>>) ELSE carts
    /\ cartCall' = [op |-> "deleteAllProductsfromCart", cartId |-> cartId,
                    productId |-> "", found |-> cartId \in DOMAIN carts,
                    pre |-> IF cartId \in DOMAIN carts
                            THEN carts[cartId] ELSE <<>>]
    /\ UNCHANGED <<file, call, pc, local, version, lastWriter>>

NextCart ==
    \/ \E cartId \in CartIds : AddCart(cartId)
    \/ \E cartId \in CartIds, productId \in ProductArgs :
           AddProductToCart(cartId, productId)
    \/ \E cartId \in CartIds, productId \in ProductArgs :
           DeleteOneProductfromCart(cartId, productId)
    \/ \E cartId \in CartIds : DeleteAllProductsfromCart(cartId)

SpecCart == Init /\ [][NextCart]_vars

----------------------------------------------------------------------------
(* Properties.  They are stated over the recorded call and the stored data, *)
(* with their own notions of "same code", "maximum id" and "matches".       *)

HasField(obj, f) == f \in DOMAIN obj

AllSupplied(newProduct) == \A f \in Fields : HasField(newProduct, f)

SameCodeStored(productList, newProduct) ==
    \E i \in 1..Len(productList) :
        /\ HasField(productList[i], "code")
        /\ HasField(newProduct, "code")
        /\ productList[i].code = newProduct.code

IdsOf(productList) == {productList[i].id : i \in 1..Len(productList)}

MaxIdOf(productList) ==
    CHOOSE m \in IdsOf(productList) : \A n \in IdsOf(productList) : n <= m

Targets(productList, productID) ==
    {i \in 1..Len(productList) :
        productID.t = "num" /\ productList[i].id = productID.n}

\* C1: a new product whose six fields are all supplied and whose code some
\* stored product already has is rejected: addProduct returns no product and
\* the file holds the same collection, in order and content, as before.
C1_DuplicateCodeRejected ==
    (/\ call.op = "add"
     /\ AllSupplied(call.newProduct)
     /\ SameCodeStored(call.pre, call.newProduct))
    => (/\ call.ret.kind = "undefined"
        /\ ~call.written
        /\ file = call.pre)

\* C1 witness: a fully valid product was rejected because a stored product
\* other than the first one has its code
C1_Witness ==
    /\ call.op = "add"
    /\ \A f \in Fields : Truthy(Get(call.newProduct, f))
    /\ Len(call.pre) >= 2
    /\ ~SameCodeStored(<<call.pre[1]>>, call.newProduct)
    /\ SameCodeStored(call.pre, call.newProduct)
    /\ file = call.pre

\* C2: in sequential use from an empty file, an addProduct call that stores
\* a product gives it the id max(ids before the call) + 1, or 1 when the
\* collection was empty.
C2_NewIdIsMaxPlusOne ==
    (call.op = "add" /\ call.written)
    => LET expected == IF call.pre = <<>> THEN 1
                       ELSE MaxIdOf(call.pre) + 1
       IN  /\ call.id = expected
           /\ Len(file) = Len(call.pre) + 1
           /\ file[Len(file)].id = expected

\* C2 witness: a product was added to a collection that has lost a product,
\* so that its length is below its largest id
C2_Witness ==
    /\ call.op = "add"
    /\ call.written
    /\ call.pre # <<>>
    /\ Len(call.pre) < MaxIdOf(call.pre)
    /\ file[Len(file)].id = MaxIdOf(call.pre) + 1

\* C3: after updateProduct(id, payload) on a stored product, every field
\* that the payload does not supply has the value it had before the call.
C3_AbsentFieldsPreserved ==
    (call.op = "update")
    => \A i \in Targets(call.pre, call.productID) :
           \A f \in Fields \ DOMAIN call.payload :
               Get(file[i], f) = Get(call.pre[i], f)

\* C5: in sequential use from an empty file, no two stored products have
\* the same code.
C5_CodesUnique ==
    \A i, j \in 1..Len(file) :
        (i # j /\ HasField(file[i], "code") /\ HasField(file[j], "code"))
        => file[i].code # file[j].code

\* C6: deleteProduct with an id that no stored product has leaves the file
\* with the same collection, in order and content, as before.
C6_DeleteMissingIdUnchanged ==
    (/\ call.op = "delete"
     /\ \A i \in 1..Len(call.pre) : call.pre[i].id # call.productID.n)
    => file = call.pre

\* C6 witness: deleteProduct ran on a non-empty collection with an id that
\* none of its products has
C6_Witness ==
    /\ call.op = "delete"
    /\ Len(call.pre) >= 2
    /\ \A i \in 1..Len(call.pre) : call.pre[i].id # call.productID.n
    /\ file = call.pre

\* C7: addProduct stores the product exactly when its six fields are all
\* present and no stored product has its code; then the collection is the
\* old one followed by one record with the supplied values; in every other
\* case the collection is unchanged.
C7_AcceptedIffPresentAndUnique ==
    (call.op = "add")
    => IF AllSupplied(call.newProduct)
          /\ ~SameCodeStored(call.pre, call.newProduct)
       THEN /\ Len(file) = Len(call.pre) + 1
            /\ SubSeq(file, 1, Len(call.pre)) = call.pre
            /\ \A f \in Fields :
                   Get(file[Len(file)], f) = call.newProduct[f]
       ELSE file = call.pre

\* C8: in sequential use of addProduct and deleteProduct from an empty file,
\* an addProduct call that stores a product returns that product, the record
\* just appended with the id given to it.
C8_ReturnsAddedProduct ==
    (call.op = "add" /\ call.written)
    => /\ call.ret.kind = "product"
       /\ call.ret.val = file[Len(file)]
       /\ call.ret.val.id = call.id

\* C9: when two addProduct calls read the same collection before either has
\* written and both then write, the file holds the list the second writer
\* read followed by the second writer's product, and no product of the
\* first writer.
RacingAdds(first, second) ==
    /\ first # second
    /\ pc[first] = "idle" /\ pc[second] = "idle"
    /\ local[first].op = "add" /\ local[second].op = "add"
    /\ local[first].written /\ local[second].written
    /\ local[first].newProduct.code # local[second].newProduct.code
    /\ local[first].readAt = local[second].readAt
    /\ local[first].readAt < local[first].writeAt
    /\ local[first].writeAt < local[second].writeAt
    /\ local[second].writeAt = version

C9_SecondWriterDiscardsFirst ==
    \A first, second \in Callers :
        RacingAdds(first, second)
        => /\ local[first].snapshot = local[second].snapshot
           /\ Len(file) = Len(local[second].snapshot) + 1
           /\ SubSeq(file, 1, Len(file) - 1) = local[second].snapshot
           /\ file[Len(file)].code = local[second].newProduct.code
           /\ \A i \in 1..Len(file) :
                  Get(file[i], "code") # local[first].newProduct.code

\* C9 witness: two addProduct calls with distinct codes have both read the
\* same collection and both completed their write
C9_Witness ==
    \E first, second \in Callers :
        /\ RacingAdds(first, second)
        /\ lastWriter = second
        /\ Len(local[second].snapshot) > 0

\* C10: no stored collection ever holds two products with the same id, also
\* when addProduct and deleteProduct calls of different callers interleave.
C10_IdsUnique ==
    \A i, j \in 1..Len(file) : i # j => file[i].id # file[j].id

\* C4: addProductToCart on an existing cart and product adds 1 to the
\* quantity of the product's line item and keeps the number of line items
\* when the cart already has one, and otherwise appends one line item at
\* quantity 1; no cart ever holds two line items for the same product.
C4_IncrementOrInsert ==
    /\ (/\ cartCall.op = "addProductToCart"
        /\ cartCall.found
        /\ cartCall.productId \in ProductDocs)
       => LET pre == cartCall.pre
              post == carts[cartCall.cartId]
              held == {i \in 1..Len(pre) : pre[i].product = cartCall.productId}
          IN  IF held # {}
              THEN /\ Len(post) = Len(pre)
                   /\ \A i \in 1..Len(pre) :
                          /\ post[i].product = pre[i].product
                          /\ post[i].quantity =
                                 IF i \in held THEN pre[i].quantity + 1
                                 ELSE pre[i].quantity
              ELSE post = Append(pre, [product |-> cartCall.productId,
                                       quantity |-> 1])
    /\ \A k \in DOMAIN carts :
           \A i, j \in 1..Len(carts[k]) :
               i # j => carts[k][i].product # carts[k][j].product

====
